---- MODULE Spec2Model ----
(***************************************************************************)
(* State-machine model of the auth / session / game-import backend.        *)
(*                                                                         *)
(* Two server programs are modelled, selected by the variable `mode`:      *)
(*   "pg_only"     src/server.js          (Postgres only)                  *)
(*   "dual_pg"     src/unnamed/part_000   (DATABASE_URL set)               *)
(*   "dual_sqlite" src/unnamed/part_000   (SQLite fallback, MemoryStore)   *)
(*                                                                         *)
(* A request is a record in a connection slot.  Every `await` of a handler *)
(* is a step boundary, so handlers of different slots interleave exactly   *)
(* where the event loop lets them.  The synchronous better-sqlite3 calls   *)
(* of the import and list handlers run inside the step that starts them.   *)
(***************************************************************************)
EXTENDS Integers, Sequences, FiniteSets, TLC

VARIABLES
    mode,       \* which program / backend is running
    boots,      \* number of times the server process has started
    clock,      \* time, in units of twelve hours
    lifetimes,  \* sid -> [created, expires, boot] of the stored session
    foreignKeys,\* whether the database enforces FOREIGN KEY constraints
    userSeq,    \* last value of the users.id sequence
    deleteIssued, \* ids of users for which DELETE FROM users was issued
    users,      \* users table: sequence of rows, in insertion order
    games,      \* games table: sequence of committed rows, in insertion order
    sessions,   \* session store: sid -> [userId, username]
    nextSid,    \* next fresh session identifier
    issued,     \* identifiers sent to a client with Set-Cookie
    req,        \* connection slot -> request in flight (or idle / done)
    started,    \* number of requests received so far
    registered, \* credentials for which /api/register has answered 201
    loggedOut,  \* identifiers for which /api/logout has answered {ok: true}
    mig         \* the run of migrate_sqlite_to_postgres.js: its inputs and its position

vars == <<mode, boots, clock, lifetimes, foreignKeys, userSeq, deleteIssued, users, games, sessions, nextSid, issued, req, started, registered, loggedOut, mig>>

(***************************************************************************)
(* Bounds of the model.                                                    *)
(***************************************************************************)
MaxReq == 3     \* requests received in one behaviour
MaxBatch == 2   \* records in one import payload
MaxClock == 3   \* twelve-hour units of time that pass in one behaviour
MaxBoots == 2   \* starts of the server process in one behaviour
MaxOwnerReq == 5   \* requests received in one behaviour of two users, one at a time

Slots == {1, 2}   \* connections that may be in flight together

Modes == {"pg_only", "dual_pg", "dual_sqlite"}

(***************************************************************************)
(* JavaScript values of the request body fields username / password.       *)
(***************************************************************************)
Str(s) == [t |-> "string", v |-> s]
Undefined == [t |-> "undefined", v |-> ""]
NumberValue == [t |-> "number", v |-> "7"]
BooleanValue == [t |-> "boolean", v |-> "true"]

\* !x is false
Truthy(x) == x.t # "undefined" /\ ~(x.t = "string" /\ x.v = "")

\* the text a query parameter is stored / compared as
ToText(x) == x.v

(***************************************************************************)
(* bcrypt                                                                  *)
(***************************************************************************)
\* a faulty hash that returns the password itself
bcryptHashPlain(p) == <<p.v>>

\* bcrypt.hash(password, SALT_ROUNDS): a one-way image of the password
bcryptHash(p) == <<"$2b$", p.v>>

\* bcrypt.hash / bcrypt.compare reject data that is not a string
bcryptThrows(p) == p.t # "string"

\* a faulty comparison, against the password itself instead of its hash
bcryptComparePlain(p, h) == h = <<p.v>>

\* bcrypt.compare(password, hash)
bcryptCompare(p, h) == bcryptHash(p) = h

(***************************************************************************)
(* JSON values and text.  Text is a sequence of one-character strings.     *)
(***************************************************************************)
JNull == [k |-> "null"]
JBool(b) == [k |-> "bool", b |-> b]
JNum(n) == [k |-> "num", n |-> n]
JStr(cs) == [k |-> "str", s |-> cs]
JArr(vs) == [k |-> "arr", a |-> vs]
JObj(ms) == [k |-> "obj", o |-> ms]
JUndefined == [k |-> "undefined"]

Digits == <<"0", "1", "2", "3", "4", "5", "6", "7", "8", "9">>
DigitChars == {Digits[i] : i \in 1..10}
DigitValue(c) == (CHOOSE i \in 1..10 : Digits[i] = c) - 1

RECURSIVE NumberText(_)
NumberText(n) == IF n < 10 THEN <<Digits[n + 1]>> ELSE NumberText(n \div 10) \o <<Digits[(n % 10) + 1]>>

RECURSIVE EscapeChars(_)
EscapeChars(cs) ==
    IF cs = <<>> THEN <<>>
    ELSE (IF Head(cs) \in {"\"", "\\"} THEN <<"\\", Head(cs)>> ELSE <<Head(cs)>>) \o EscapeChars(Tail(cs))

\* a string written between quotes without escaping (not what JSON.stringify does)
QuoteBare(cs) == <<"\"">> \o cs \o <<"\"">>

Quote(cs) == <<"\"">> \o EscapeChars(cs) \o <<"\"">>

RECURSIVE Stringify(_)
RECURSIVE StringifyItems(_)
RECURSIVE StringifyMembers(_)
\* JSON.stringify(v)
Stringify(v) ==
    CASE v.k = "null" -> <<"n", "u", "l", "l">>
      [] v.k = "bool" -> IF v.b THEN <<"t", "r", "u", "e">> ELSE <<"f", "a", "l", "s", "e">>
      [] v.k = "num" -> NumberText(v.n)
      [] v.k = "str" -> Quote(v.s)
      [] v.k = "arr" -> <<"[">> \o StringifyItems(v.a) \o <<"]">>
      [] v.k = "obj" -> <<"{">> \o StringifyMembers(v.o) \o <<"}">>

StringifyItems(vs) ==
    IF vs = <<>> THEN <<>>
    ELSE IF Len(vs) = 1 THEN Stringify(vs[1])
    ELSE Stringify(vs[1]) \o <<",">> \o StringifyItems(Tail(vs))

StringifyMembers(ms) ==
    IF ms = <<>> THEN <<>>
    ELSE IF Len(ms) = 1 THEN Quote(ms[1][1]) \o <<":">> \o Stringify(ms[1][2])
    ELSE Quote(ms[1][1]) \o <<":">> \o Stringify(ms[1][2]) \o <<",">> \o StringifyMembers(Tail(ms))

\* result of a parsing step: ok, the value read, the text left
PFail == [ok |-> FALSE, val |-> JNull, rest |-> <<>>]
POk(v, rest) == [ok |-> TRUE, val |-> v, rest |-> rest]

HasPrefix(cs, p) == Len(cs) >= Len(p) /\ SubSeq(cs, 1, Len(p)) = p
Drop(cs, n) == SubSeq(cs, n + 1, Len(cs))

\* characters of a string literal up to its closing quote
RECURSIVE ParseChars(_, _)
ParseChars(cs, acc) ==
    IF cs = <<>> THEN PFail
    ELSE IF Head(cs) = "\"" THEN POk(JStr(acc), Tail(cs))
    ELSE IF Head(cs) = "\\"
         THEN IF Len(cs) >= 2 /\ cs[2] \in {"\"", "\\"}
              THEN ParseChars(Drop(cs, 2), Append(acc, cs[2]))
              ELSE PFail
    ELSE ParseChars(Tail(cs), Append(acc, Head(cs)))

\* digits of a number after its first digit
RECURSIVE ParseDigits(_, _)
ParseDigits(cs, n) ==
    IF cs # <<>> /\ Head(cs) \in DigitChars
    THEN ParseDigits(Tail(cs), 10 * n + DigitValue(Head(cs)))
    ELSE POk(JNum(n), cs)

RECURSIVE ParseValue(_)
RECURSIVE ParseItems(_, _)
RECURSIVE ParseMembers(_, _)
ParseValue(cs) ==
    IF cs = <<>> THEN PFail
    ELSE LET c == Head(cs) IN
         CASE c = "\"" -> ParseChars(Tail(cs), <<>>)
           [] c = "0" -> POk(JNum(0), Tail(cs))
           [] c \in DigitChars \ {"0"} -> ParseDigits(Tail(cs), DigitValue(c))
           [] c = "[" ->
                IF Len(cs) >= 2 /\ cs[2] = "]" THEN POk(JArr(<<>>), Drop(cs, 2))
                ELSE ParseItems(Tail(cs), <<>>)
           [] c = "{" ->
                IF Len(cs) >= 2 /\ cs[2] = "}" THEN POk(JObj(<<>>), Drop(cs, 2))
                ELSE ParseMembers(Tail(cs), <<>>)
           [] c = "n" -> IF HasPrefix(cs, <<"n", "u", "l", "l">>) THEN POk(JNull, Drop(cs, 4)) ELSE PFail
           [] c = "t" -> IF HasPrefix(cs, <<"t", "r", "u", "e">>) THEN POk(JBool(TRUE), Drop(cs, 4)) ELSE PFail
           [] c = "f" -> IF HasPrefix(cs, <<"f", "a", "l", "s", "e">>) THEN POk(JBool(FALSE), Drop(cs, 5)) ELSE PFail
           [] OTHER -> PFail

\* elements of an array after "[" : value ("," value)* "]"
ParseItems(cs, acc) ==
    LET e == ParseValue(cs) IN
    IF ~e.ok \/ e.rest = <<>> THEN PFail
    ELSE IF Head(e.rest) = "]" THEN POk(JArr(Append(acc, e.val)), Tail(e.rest))
    ELSE IF Head(e.rest) = "," THEN ParseItems(Tail(e.rest), Append(acc, e.val))
    ELSE PFail

\* members of an object after "{" : string ":" value ("," string ":" value)* "}"
ParseMembers(cs, acc) ==
    IF cs = <<>> \/ Head(cs) # "\"" THEN PFail
    ELSE LET key == ParseChars(Tail(cs), <<>>) IN
         IF ~key.ok \/ key.rest = <<>> \/ Head(key.rest) # ":" THEN PFail
         ELSE LET e == ParseValue(Tail(key.rest)) IN
              IF ~e.ok \/ e.rest = <<>> THEN PFail
              ELSE IF Head(e.rest) = "}" THEN POk(JObj(Append(acc, <<key.val.s, e.val>>)), Tail(e.rest))
              ELSE IF Head(e.rest) = "," THEN ParseMembers(Tail(e.rest), Append(acc, <<key.val.s, e.val>>))
              ELSE PFail

\* JSON.parse(text): throws unless the whole text is one value
JsonParse(cs) ==
    LET p == ParseValue(cs) IN IF p.ok /\ p.rest = <<>> THEN p ELSE PFail

JsonParses(cs) == JsonParse(cs).ok

(***************************************************************************)
(* Credential store                                                        *)
(***************************************************************************)
NoUser == [id |-> 0, username |-> "", password_hash |-> <<>>]

\* a faulty lookup that never finds a row
findUserByNameNone(rows, name) == NoUser

\* SELECT id, username, password_hash FROM users WHERE username = $1 ; rows[0] || null
findUserByName(rows, name) ==
    LET hits == {i \in 1..Len(rows) : rows[i].username = name}
    IN  IF hits = {} THEN NoUser
        ELSE rows[CHOOSE i \in hits : \A j \in hits : i <= j]

\* some row of the table has this username
HasRow(rows, name) == \E i \in 1..Len(rows) : rows[i].username = name

\* a users table without the UNIQUE constraint
UniqueViolationNever(rows, name) == FALSE

\* username TEXT UNIQUE NOT NULL
UniqueViolation(rows, name) == \E i \in 1..Len(rows) : rows[i].username = name

\* the id sequence after an INSERT that the UNIQUE constraint rejected: a SERIAL
\* column has drawn its value before the constraint is checked, AUTOINCREMENT has not
SeqAfterRejectedInsert(m, seq) == IF m = "dual_sqlite" THEN seq ELSE seq + 1

\* INSERT INTO users (username, password_hash) VALUES ($1, $2) RETURNING id
insertUser(rows, name, hash) ==
    Append(rows, [id |-> userSeq + 1, username |-> name, password_hash |-> hash])

(***************************************************************************)
(* Game record store                                                       *)
(***************************************************************************)
\* an element of payload.games: null, or an object { pgn, fens, date }
NullGame == [isNull |-> TRUE]
Game(pgn, fens, date) == [isNull |-> FALSE, pgn |-> pgn, pgnType |-> "string", fens |-> fens, date |-> date]

\* a record whose pgn is the JavaScript value v: pgn is the text a query
\* parameter of that value is sent as, pgnType its typeof
GameOfPgn(v, fens, date) == [Game(ToText(v), fens, date) EXCEPT !.pgnType = v.t]

\* better-sqlite3 binds numbers, strings, bigints, buffers and null; any other
\* value makes run() throw a TypeError.  node-postgres sends value.toString()
SqliteBinds == {"string", "number"}

DateAbsent == [k |-> "absent"]
DateGarbage == [k |-> "garbage"]
DateAt(n) == [k |-> "date", t |-> n]

\* new Date() / NOW(): later than every historical date of the inputs
Now == started + 10

\* g.fens == null
IsNullish(f) == f.k \in {"undefined", "null"}

\* !g.fens
Falsy(f) ==
    \/ IsNullish(f)
    \/ (f.k = "bool" /\ ~f.b)
    \/ (f.k = "num" /\ f.n = 0)
    \/ (f.k = "str" /\ f.s = <<>>)

EmptyArrayText == <<"[", "]">>

\* server.js: null -> '[]' ; string -> itself if it parses, else JSON.stringify([fens]) ;
\* anything else -> JSON.stringify(fens)
NormalizeFensPgOnly(f) ==
    IF IsNullish(f) THEN EmptyArrayText
    ELSE IF f.k = "str" THEN (IF JsonParses(f.s) THEN f.s ELSE Stringify(JArr(<<f>>)))
    ELSE Stringify(f)

\* part_000: JSON.stringify(g.fens || [])
NormalizeFensDual(f) == Stringify(IF Falsy(f) THEN JArr(<<>>) ELSE f)

NormalizeFens(m, f) == IF m = "pg_only" THEN NormalizeFensPgOnly(f) ELSE NormalizeFensDual(f)

\* server.js: g.date || g.created_at || new Date().toISOString() ; part_000: column default
CreatedAt(m, g, now) ==
    IF m = "pg_only" /\ g.date.k = "date" THEN g.date.t ELSE now

\* the time an inserted row gets when no date is given: server.js passes
\* new Date() of the moment of the insert, the column default NOW() of part_000
\* is the start of the transaction
InsertTime(m, began, now) == IF m = "dual_pg" THEN began ELSE now

\* the cases in which inserting one record throws: g is null (g.pgn cannot be read),
\* Postgres rejects the timestamp text, or SQLite cannot bind the pgn value
InsertThrows(m, g) ==
    \/ g.isNull
    \/ (m = "pg_only" /\ g.date.k = "garbage")
    \/ (m = "dual_sqlite" /\ g.pgnType \notin SqliteBinds)

\* a faulty insert that does not record the owner of the row
GameRowUnowned(m, userId, g, now) ==
    [user_id |-> 0, pgn |-> g.pgn, fens |-> NormalizeFens(m, g.fens),
     created_at |-> CreatedAt(m, g, now)]

\* the row one INSERT INTO games adds
GameRow(m, userId, g, now) ==
    [user_id |-> userId, pgn |-> g.pgn, fens |-> NormalizeFens(m, g.fens),
     created_at |-> CreatedAt(m, g, now)]

\* user_id INTEGER NOT NULL REFERENCES users(id): an insert for a user without a
\* row is rejected when the database enforces foreign keys
ForeignKeyViolation(userId) ==
    foreignKeys /\ ~\E i \in 1..Len(users) : users[i].id = userId

\* a faulty ROLLBACK that keeps the rows inserted since BEGIN
RollbackKeepsRows(table, tx) == table \o tx

\* ROLLBACK: the rows inserted since BEGIN are dropped
Rollback(table, tx) == table

\* a faulty COMMIT that makes only the first inserted row visible
CommitFirstRow(table, tx) == table \o SubSeq(tx, 1, IF tx = <<>> THEN 0 ELSE 1)

\* COMMIT: the rows inserted since BEGIN become visible
Commit(table, tx) == table \o tx

\* db.transaction(fn)(games) of better-sqlite3: every row or, if one insert throws, none
RECURSIVE BulkRows(_, _, _, _)
BulkRows(m, userId, gs, now) ==
    IF gs = <<>> THEN [ok |-> TRUE, rows |-> <<>>]
    ELSE IF InsertThrows(m, Head(gs)) THEN [ok |-> FALSE, rows |-> <<>>]
    ELSE LET rest == BulkRows(m, userId, Tail(gs), now)
         IN  IF rest.ok THEN [ok |-> TRUE, rows |-> <<GameRow(m, userId, Head(gs), now)>> \o rest.rows]
             ELSE rest

\* a faulty SELECT without its WHERE user_id = $1
RowsOfAnyone(table, userId) == table

\* rows of one user
RECURSIVE RowsOf(_, _)
RowsOf(table, userId) ==
    IF table = <<>> THEN <<>>
    ELSE (IF Head(table).user_id = userId THEN <<Head(table)>> ELSE <<>>) \o RowsOf(Tail(table), userId)

\* ORDER BY created_at DESC ; rows of equal created_at come in table order or its reverse
Before(a, b, tieAsc) ==
    \/ a.created_at > b.created_at
    \/ (a.created_at = b.created_at /\ tieAsc)

RECURSIVE InsertSorted(_, _, _)
InsertSorted(sorted, row, tieAsc) ==
    IF sorted = <<>> THEN <<row>>
    ELSE IF Before(row, Head(sorted), ~tieAsc) THEN <<row>> \o sorted
    ELSE <<Head(sorted)>> \o InsertSorted(Tail(sorted), row, tieAsc)

RECURSIVE OrderByCreatedAtDesc(_, _)
OrderByCreatedAtDesc(rows, tieAsc) ==
    IF rows = <<>> THEN <<>>
    ELSE InsertSorted(OrderByCreatedAtDesc(SubSeq(rows, 1, Len(rows) - 1), tieAsc), rows[Len(rows)], tieAsc)

\* JSON.parse(r.fens || '[]')
StoredFensText(row) == IF row.fens = <<>> THEN EmptyArrayText ELSE row.fens

\* SELECT ... WHERE user_id = $1 ORDER BY created_at DESC, mapped to { pgn, fens, date }
getGamesByUser(table, userId, tieAsc) ==
    LET rows == OrderByCreatedAtDesc(RowsOf(table, userId), tieAsc)
    IN  [ok |-> \A i \in 1..Len(rows) : JsonParses(StoredFensText(rows[i])),
         games |-> [i \in 1..Len(rows) |->
                      [pgn |-> rows[i].pgn, fens |-> JsonParse(StoredFensText(rows[i])).val,
                       date |-> rows[i].created_at]]]

(***************************************************************************)
(* Session middleware (express-session)                                    *)
(***************************************************************************)
NoIdentity == [userId |-> 0, username |-> ""]

\* cookie: { maxAge: 24 * 3600 * 1000 }, in units of twelve hours
MaxAge == 2

\* the store holds the session and its expiry has not passed
Live(c) == c \in DOMAIN sessions /\ lifetimes[c].expires > clock

\* store.get(cookie sid): the session of the request, or a new anonymous one
LoadSession(c) == IF Live(c) THEN sessions[c] ELSE NoIdentity

\* req.sessionID ; 0 stands for a newly generated identifier that was never saved
LoadSid(c) == IF Live(c) THEN c ELSE 0

\* a faulty store.destroy that only removes sessions without an identity
StoreDestroyAnonymous(store, sid) ==
    [x \in {y \in DOMAIN store : y # sid \/ store[y].userId # 0} |-> store[x]]

\* a faulty store.destroy that leaves the session in the store
StoreDestroyNothing(store, sid) == store

\* store.destroy(sid)
StoreDestroy(store, sid) == [x \in DOMAIN store \ {sid} |-> store[x]]

\* store.set(sid, session)
StoreSet(store, sid, ident) == [x \in DOMAIN store \cup {sid} |-> IF x = sid THEN ident ELSE store[x]]

\* whether a call of the session store can pass an error to its callback: the
\* Postgres-backed store runs a query, MemoryStore only updates an object
StoreFaults == IF mode = "dual_sqlite" THEN {FALSE} ELSE BOOLEAN

\* a faulty guard that lets every session through
AuthenticatedAlways(r) == TRUE

\* req.session && req.session.userId
Authenticated(r) == r.sess.userId # 0

\* a faulty store.touch that writes the session back whether or not it is stored
StoreTouchUpsert(store, sid, sess) == [x \in DOMAIN store \cup {sid} |-> IF x = sid THEN sess ELSE store[x]]

\* store.touch(sid, session): only the expiry of a stored session is renewed (see
\* EndOfResponse); a session that is no longer stored is not written
StoreTouch(store, sid, sess) == store

\* a faulty end of response that drops the session of the request it answers
DropAtEndOfResponse(s) ==
    IF req'[s].pc = "done" THEN StoreDestroy(sessions, req[s].cookie) ELSE sessions

\* the session store after a step of the request of slot s that changes no session
\* itself.  The session is unmodified, so with resave: false the middleware does
\* not save it when the response ends; it touches the session the request loaded.
TouchAtEndOfResponse(s) ==
    LET held == IF req[s].pc = "arrived" THEN LoadSid(req[s].cookie) ELSE req[s].sid
        sess == IF req[s].pc = "arrived" THEN LoadSession(req[s].cookie) ELSE req[s].sess
    IN  IF req'[s].pc = "done" /\ held # 0 THEN StoreTouch(sessions, held, sess) ELSE sessions

\* the expiry of the stored sessions after a step of the request of slot s.  A
\* session saved in the step starts its window; as a response ends,
\* req.session.touch() resets cookie.expires to now + maxAge and store.touch
\* writes it to the stored session of the request if the store still holds one
\* (MemoryStore: one that has not expired).
EndOfResponse(s) ==
    LET kept == [x \in DOMAIN sessions' |->
                    IF x \in DOMAIN lifetimes THEN lifetimes[x]
                    ELSE [created |-> clock, expires |-> clock + MaxAge, boot |-> boots]]
        sid == req'[s].sid
        touch == /\ req'[s].pc = "done"
                 /\ sid \in DOMAIN kept
                 /\ (mode = "dual_sqlite" => kept[sid].expires > clock)
    IN  IF touch THEN [kept EXCEPT ![sid].expires = clock + MaxAge] ELSE kept

(***************************************************************************)
(* Requests                                                                *)
(***************************************************************************)
NoBody == [none |-> TRUE]

\* req.body.games: absent, present but not an array, or an array
GamesAbsent == [kind |-> "absent", items |-> <<>>]
GamesNotArray == [kind |-> "notarray", items |-> <<>>]
GamesArray(items) == [kind |-> "array", items |-> items]

IdleReq ==
    [op |-> "none", pc |-> "idle",
     username |-> Undefined, password |-> Undefined, payload |-> GamesAbsent,
     cookie |-> 0, sid |-> 0, sess |-> NoIdentity,
     user |-> NoUser, hash |-> <<>>, newId |-> 0, idx |-> 0, tx |-> <<>>,
     began |-> 0,             \* time of BEGIN of the request's transaction
     status |-> 0, body |-> NoBody,
     \* history of the request, read only by the properties
     oldSid |-> 0,            \* req.sessionID when the handler was entered
     existed |-> FALSE,       \* the username had a row when the request arrived
     known |-> FALSE,         \* the credentials were registered (201) when it arrived
     afterLogout |-> FALSE,   \* its cookie had been logged out when it arrived
     fault |-> FALSE,         \* a storage call of the request failed
     aborted |-> FALSE,       \* the client went away while it was in flight
     overtaken |-> FALSE]     \* a logout destroyed the session it had loaded, while it was in flight

\* what a client can send
RegisterRequests(U, P) == {[op |-> "register", username |-> u, password |-> p, payload |-> GamesAbsent] : u \in U, p \in P}
LoginRequests(U, P) == {[op |-> "login", username |-> u, password |-> p, payload |-> GamesAbsent] : u \in U, p \in P}
ImportRequests(Payloads) == {[op |-> "import", username |-> Undefined, password |-> Undefined, payload |-> p] : p \in Payloads}
BareRequest(op) == [op |-> op, username |-> Undefined, password |-> Undefined, payload |-> GamesAbsent]

\* the cookies a client can send: none, or an identifier the server has issued
CookieChoices == {0} \cup issued

Free(s) == req[s].pc \in {"idle", "done"}

\* a request arrives on the first free connection
ReceiveWithin(s, Requests, max) ==
    /\ Free(s)
    /\ \A t \in Slots : t < s => ~Free(t)
    /\ started < max
    /\ started' = started + 1
    /\ \E m \in Requests, c \in CookieChoices :
        req' = [req EXCEPT ![s] =
            [IdleReq EXCEPT !.op = m.op, !.pc = "arrived", !.username = m.username,
                            !.password = m.password, !.payload = m.payload, !.cookie = c,
                            !.existed = HasRow(users, ToText(m.username)),
                            !.known = ([username |-> m.username, password |-> m.password] \in registered),
                            !.afterLogout = (c \in loggedOut)]]
    /\ UNCHANGED <<mig, mode, boots, clock, lifetimes, foreignKeys, userSeq, deleteIssued, users, games, sessions, nextSid, issued, registered, loggedOut>>

Receive(s, Requests) == ReceiveWithin(s, Requests, MaxReq)

\* the session middleware has loaded req.session and the handler is entered
Entered(r) == [r EXCEPT !.sid = LoadSid(r.cookie), !.sess = LoadSession(r.cookie), !.oldSid = LoadSid(r.cookie)]

\* res.status(code).json(body) ; what the handler held is dropped
Respond(r, code, body) ==
    [IdleReq EXCEPT !.op = r.op, !.pc = "done", !.status = code, !.body = body,
                    !.username = r.username, !.cookie = r.cookie, !.sid = r.sid, !.oldSid = r.oldSid,
                    !.idx = r.idx,
                    !.existed = r.existed, !.known = r.known, !.afterLogout = r.afterLogout,
                    !.fault = r.fault, !.aborted = r.aborted, !.overtaken = r.overtaken]

Err(e) == [error |-> e]

Failed(r, code, e) == Respond([r EXCEPT !.fault = TRUE], code, Err(e))

At(s, op, pc) == req[s].op = op /\ req[s].pc = pc

(***************************************************************************)
(* POST /api/register                                                      *)
(***************************************************************************)
\* server.js: !username || !password || typeof ... !== 'string' ; part_000: !username || !password
RegisterInputInvalid(m, u, p) ==
    \/ ~Truthy(u)
    \/ ~Truthy(p)
    \/ (m = "pg_only" /\ (u.t # "string" \/ p.t # "string"))

RegisterEnter(s) ==
    /\ At(s, "register", "arrived")
    /\ LET r == Entered(req[s])
       IN  req' = [req EXCEPT ![s] =
                IF RegisterInputInvalid(mode, r.username, r.password)
                THEN Respond(r, 400, Err("username_and_password_required"))
                ELSE [r EXCEPT !.pc = "find"]]
    /\ UNCHANGED <<mig, mode, boots, clock, foreignKeys, userSeq, deleteIssued, users, games, nextSid, issued, started, registered, loggedOut>>
    /\ sessions' = TouchAtEndOfResponse(s)
    /\ lifetimes' = EndOfResponse(s)

\* const existing = await db.findUserByName(username); if (existing) return 409
RegisterFind(s) ==
    /\ At(s, "register", "find")
    /\ \E fail \in BOOLEAN :
        LET r == req[s]
            existing == findUserByName(users, ToText(r.username))
        IN  req' = [req EXCEPT ![s] =
                IF fail THEN Failed(r, 500, "internal")
                ELSE IF existing # NoUser THEN Respond(r, 409, Err("username_taken"))
                ELSE [r EXCEPT !.pc = "hash"]]
    /\ UNCHANGED <<mig, mode, boots, clock, foreignKeys, userSeq, deleteIssued, users, games, nextSid, issued, started, registered, loggedOut>>
    /\ sessions' = TouchAtEndOfResponse(s)
    /\ lifetimes' = EndOfResponse(s)

\* const password_hash = await bcrypt.hash(password, SALT_ROUNDS)
RegisterHash(s) ==
    /\ At(s, "register", "hash")
    /\ LET r == req[s]
       IN  req' = [req EXCEPT ![s] =
                IF bcryptThrows(r.password) THEN Respond(r, 500, Err("internal"))
                ELSE [r EXCEPT !.pc = "insert", !.hash = bcryptHash(r.password)]]
    /\ UNCHANGED <<mig, mode, boots, clock, foreignKeys, userSeq, deleteIssued, users, games, nextSid, issued, started, registered, loggedOut>>
    /\ sessions' = TouchAtEndOfResponse(s)
    /\ lifetimes' = EndOfResponse(s)

\* const newId = await db.insertUser(username, password_hash)
RegisterInsert(s) ==
    /\ At(s, "register", "insert")
    /\ \E fail \in BOOLEAN :
        LET r == req[s]
            name == ToText(r.username)
        IN  IF fail
            THEN /\ req' = [req EXCEPT ![s] = Failed(r, 500, "internal")]
                 /\ UNCHANGED <<users, userSeq>>
            ELSE IF UniqueViolation(users, name)
            THEN /\ req' = [req EXCEPT ![s] = Respond(r, 500, Err("internal"))]
                 /\ users' = users
                 /\ userSeq' = SeqAfterRejectedInsert(mode, userSeq)
            ELSE /\ users' = insertUser(users, name, r.hash)
                 /\ userSeq' = userSeq + 1
                 /\ req' = [req EXCEPT ![s] = [r EXCEPT !.pc = "regenerate", !.newId = userSeq + 1,
                                                        !.hash = <<>>]]
    /\ UNCHANGED <<mig, mode, boots, clock, foreignKeys, deleteIssued, games, nextSid, issued, started, registered, loggedOut>>
    /\ sessions' = TouchAtEndOfResponse(s)
    /\ lifetimes' = EndOfResponse(s)

(***************************************************************************)
(* POST /api/login                                                         *)
(***************************************************************************)
LoginEnter(s) ==
    /\ At(s, "login", "arrived")
    /\ LET r == Entered(req[s])
       IN  req' = [req EXCEPT ![s] =
                IF ~Truthy(r.username) \/ ~Truthy(r.password)
                THEN Respond(r, 400, Err("username_and_password_required"))
                ELSE [r EXCEPT !.pc = "find"]]
    /\ UNCHANGED <<mig, mode, boots, clock, foreignKeys, userSeq, deleteIssued, users, games, nextSid, issued, started, registered, loggedOut>>
    /\ sessions' = TouchAtEndOfResponse(s)
    /\ lifetimes' = EndOfResponse(s)

\* const user = await db.findUserByName(username); if (!user) return 401
LoginFind(s) ==
    /\ At(s, "login", "find")
    /\ \E fail \in BOOLEAN :
        LET r == req[s]
            user == findUserByName(users, ToText(r.username))
        IN  req' = [req EXCEPT ![s] =
                IF fail THEN Failed(r, 500, "internal")
                ELSE IF user = NoUser THEN Respond(r, 401, Err("invalid_credentials"))
                ELSE [r EXCEPT !.pc = "compare", !.user = user]]
    /\ UNCHANGED <<mig, mode, boots, clock, foreignKeys, userSeq, deleteIssued, users, games, nextSid, issued, started, registered, loggedOut>>
    /\ sessions' = TouchAtEndOfResponse(s)
    /\ lifetimes' = EndOfResponse(s)

\* const ok = await bcrypt.compare(password, user.password_hash); if (!ok) return 401
LoginCompare(s) ==
    /\ At(s, "login", "compare")
    /\ LET r == req[s]
       IN  req' = [req EXCEPT ![s] =
                IF bcryptThrows(r.password) THEN Respond(r, 500, Err("internal"))
                ELSE IF ~bcryptCompare(r.password, r.user.password_hash)
                THEN Respond(r, 401, Err("invalid_credentials"))
                ELSE [r EXCEPT !.pc = "regenerate"]]
    /\ UNCHANGED <<mig, mode, boots, clock, foreignKeys, userSeq, deleteIssued, users, games, nextSid, issued, started, registered, loggedOut>>
    /\ sessions' = TouchAtEndOfResponse(s)
    /\ lifetimes' = EndOfResponse(s)

(***************************************************************************)
(* req.session.regenerate(cb) and the callback of register / login         *)
(***************************************************************************)
\* a faulty regenerate that keeps the identifier of the request
GenerateSidKeepsOld(old, fresh) == IF old # 0 THEN old ELSE fresh

\* the identifier store.generate gives the regenerated session
GenerateSid(old, fresh) == fresh

\* store.destroy(req.sessionID), then store.generate(req)
Regenerate(s) ==
    /\ req[s].op \in {"register", "login"} /\ req[s].pc = "regenerate"
    /\ \E fail \in StoreFaults :
        LET r == req[s]
        IN  IF fail
            THEN /\ req' = [req EXCEPT ![s] = Failed(r, 500, "session_error")]
                 /\ UNCHANGED <<sessions, nextSid>>
            ELSE /\ sessions' = StoreDestroy(sessions, r.sid)
                 /\ nextSid' = nextSid + 1
                 /\ req' = [req EXCEPT ![s] = [r EXCEPT !.pc = "bind", !.sess = NoIdentity,
                                                        !.sid = GenerateSid(r.sid, nextSid)]]
    /\ UNCHANGED <<mig, mode, boots, clock, foreignKeys, userSeq, deleteIssued, users, games, issued, started, registered, loggedOut>>
    /\ lifetimes' = EndOfResponse(s)

\* the identity the callback writes into req.session
BoundIdentity(r) ==
    IF r.op = "register"
    THEN [userId |-> r.newId, username |-> ToText(r.username)]
    ELSE [userId |-> r.user.id, username |-> r.user.username]

\* req.session.userId = ...; req.session.username = ...; res.json({ username })
\* the modified session is saved and its cookie set as the response ends
Bind(s) ==
    /\ req[s].op \in {"register", "login"} /\ req[s].pc = "bind"
    /\ LET r == req[s]
           ident == BoundIdentity(r)
       IN  /\ sessions' = StoreSet(sessions, r.sid, ident)
           /\ issued' = issued \cup {r.sid}
           /\ registered' = IF r.op = "register"
                            THEN registered \cup {[username |-> r.username, password |-> r.password]}
                            ELSE registered
           /\ req' = [req EXCEPT ![s] =
                  Respond(r, IF r.op = "register" THEN 201 ELSE 200, [username |-> ident.username])]
    /\ UNCHANGED <<mig, mode, boots, clock, foreignKeys, userSeq, deleteIssued, users, games, nextSid, started, loggedOut>>
    /\ lifetimes' = EndOfResponse(s)

(***************************************************************************)
(* POST /api/logout                                                        *)
(***************************************************************************)
\* the request of slot x is in flight with session sid loaded
Holds(x, sid) == sid # 0 /\ req[x].pc \notin {"idle", "arrived", "done"} /\ req[x].sid = sid

LogoutEnter(s) ==
    /\ At(s, "logout", "arrived")
    /\ req' = [req EXCEPT ![s] = [Entered(req[s]) EXCEPT !.pc = "destroy"]]
    /\ UNCHANGED <<mig, mode, boots, clock, lifetimes, foreignKeys, userSeq, deleteIssued, users, games, sessions, nextSid, issued, started, registered, loggedOut>>

\* req.session.destroy(cb) ; res.clearCookie ; res.json({ ok: true })
LogoutDestroy(s) ==
    /\ At(s, "logout", "destroy")
    /\ \E fail \in StoreFaults :
        LET r == req[s]
        IN  IF fail
            THEN /\ req' = [req EXCEPT ![s] = Failed(r, 500, "logout_failed")]
                 /\ UNCHANGED <<sessions, loggedOut>>
            ELSE /\ sessions' = StoreDestroy(sessions, r.sid)
                 /\ loggedOut' = IF r.cookie = 0 THEN loggedOut ELSE loggedOut \cup {r.cookie}
                 /\ req' = [x \in Slots |->
                                IF x = s THEN Respond(r, 200, [ok |-> TRUE])
                                ELSE IF Holds(x, r.sid) THEN [req[x] EXCEPT !.overtaken = TRUE]
                                ELSE req[x]]
    /\ UNCHANGED <<mig, mode, boots, clock, foreignKeys, userSeq, deleteIssued, users, games, nextSid, issued, started, registered>>
    /\ lifetimes' = EndOfResponse(s)

(***************************************************************************)
(* GET /api/me                                                             *)
(***************************************************************************)
Me(s) ==
    /\ At(s, "me", "arrived")
    /\ LET r == Entered(req[s])
       IN  req' = [req EXCEPT ![s] =
                IF ~Authenticated(r) THEN Respond(r, 401, Err("not_authenticated"))
                ELSE Respond(r, 200, [username |-> r.sess.username])]
    /\ UNCHANGED <<mig, mode, boots, clock, foreignKeys, userSeq, deleteIssued, users, games, nextSid, issued, started, registered, loggedOut>>
    /\ sessions' = TouchAtEndOfResponse(s)
    /\ lifetimes' = EndOfResponse(s)

(***************************************************************************)
(* POST /api/import                                                        *)
(***************************************************************************)
\* a faulty payload check that only tests for a missing games field
PayloadInvalidOnlyAbsent(p) == p.kind = "absent"

\* !Array.isArray(payload.games)
PayloadInvalid(p) == p.kind # "array"

\* queries.insertGamesBulk of the SQLite backend, and the response that follows it
ImportSqlite(r, now) ==
    LET res == BulkRows("dual_sqlite", r.sess.userId, r.payload.items, now)
        refused == r.payload.items # <<>> /\ ForeignKeyViolation(r.sess.userId)
    IN  IF res.ok /\ ~refused
        THEN [rows |-> res.rows, resp |-> Respond(r, 200, [imported |-> Len(r.payload.items)])]
        ELSE [rows |-> <<>>, resp |-> Respond(r, 500, Err("internal"))]

ImportEnter(s) ==
    /\ At(s, "import", "arrived")
    /\ LET r == Entered(req[s])
       IN  IF ~Authenticated(r)
           THEN /\ req' = [req EXCEPT ![s] = Respond(r, 401, Err("not_authenticated"))]
                /\ games' = games
           ELSE IF PayloadInvalid(r.payload)
           THEN /\ req' = [req EXCEPT ![s] = Respond(r, 400, Err("invalid_payload"))]
                /\ games' = games
           ELSE IF mode = "dual_sqlite"
           THEN /\ req' = [req EXCEPT ![s] = ImportSqlite(r, Now).resp]
                /\ games' = Commit(games, ImportSqlite(r, Now).rows)
           ELSE /\ req' = [req EXCEPT ![s] = [r EXCEPT !.pc = "tx", !.idx = 1, !.began = Now]]
                /\ games' = games
    /\ UNCHANGED <<mig, mode, boots, clock, foreignKeys, userSeq, deleteIssued, users, nextSid, issued, started, registered, loggedOut>>
    /\ sessions' = TouchAtEndOfResponse(s)
    /\ lifetimes' = EndOfResponse(s)

\* one turn of the loop between BEGIN and COMMIT: await client.query(insertText, ...)
\* an error ends in the catch block: ROLLBACK, then 500
ImportInsert(s) ==
    /\ At(s, "import", "tx") /\ req[s].idx <= Len(req[s].payload.items)
    /\ \E fail \in BOOLEAN :
        LET r == req[s]
            g == r.payload.items[r.idx]
        IN  IF fail
            THEN /\ req' = [req EXCEPT ![s] = Failed(r, 500, "internal")]
                 /\ games' = Rollback(games, r.tx)
            ELSE IF InsertThrows(mode, g) \/ ForeignKeyViolation(r.sess.userId)
            THEN /\ req' = [req EXCEPT ![s] = Respond(r, 500, Err("internal"))]
                 /\ games' = Rollback(games, r.tx)
            ELSE /\ req' = [req EXCEPT ![s] = [r EXCEPT !.idx = r.idx + 1,
                                   !.tx = Append(r.tx, GameRow(mode, r.sess.userId, g, InsertTime(mode, r.began, Now)))]]
                 /\ games' = games
    /\ UNCHANGED <<mig, mode, boots, clock, foreignKeys, userSeq, deleteIssued, users, nextSid, issued, started, registered, loggedOut>>
    /\ sessions' = TouchAtEndOfResponse(s)
    /\ lifetimes' = EndOfResponse(s)

\* await client.query('COMMIT') ; res.json({ imported: payload.games.length })
ImportCommit(s) ==
    /\ At(s, "import", "tx") /\ req[s].idx > Len(req[s].payload.items)
    /\ \E fail \in BOOLEAN :
        LET r == req[s]
        IN  IF fail
            THEN /\ req' = [req EXCEPT ![s] = Failed(r, 500, "internal")]
                 /\ games' = Rollback(games, r.tx)
            ELSE /\ req' = [req EXCEPT ![s] = Respond(r, 200, [imported |-> Len(r.payload.items)])]
                 /\ games' = Commit(games, r.tx)
    /\ UNCHANGED <<mig, mode, boots, clock, foreignKeys, userSeq, deleteIssued, users, nextSid, issued, started, registered, loggedOut>>
    /\ sessions' = TouchAtEndOfResponse(s)
    /\ lifetimes' = EndOfResponse(s)

\* the client closes the connection; the handler is not cancelled
ClientAbort(s) ==
    /\ At(s, "import", "tx") /\ ~req[s].aborted
    /\ req' = [req EXCEPT ![s].aborted = TRUE]
    /\ UNCHANGED <<mig, mode, boots, clock, lifetimes, foreignKeys, userSeq, deleteIssued, users, games, sessions, nextSid, issued, started, registered, loggedOut>>

(***************************************************************************)
(* GET /api/games                                                          *)
(***************************************************************************)
\* the handler's answer from the rows it reads
GamesResponse(r, tieAsc) ==
    LET res == getGamesByUser(games, r.sess.userId, tieAsc)
    IN  IF res.ok THEN Respond(r, 200, [games |-> res.games])
        ELSE Respond(r, 500, Err("internal"))

GamesEnter(s) ==
    /\ At(s, "games", "arrived")
    /\ \E tieAsc \in BOOLEAN :
        LET r == Entered(req[s])
        IN  req' = [req EXCEPT ![s] =
                IF ~Authenticated(r) THEN Respond(r, 401, Err("not_authenticated"))
                ELSE IF mode = "dual_sqlite" THEN GamesResponse(r, tieAsc)
                ELSE [r EXCEPT !.pc = "query"]]
    /\ UNCHANGED <<mig, mode, boots, clock, foreignKeys, userSeq, deleteIssued, users, games, nextSid, issued, started, registered, loggedOut>>
    /\ sessions' = TouchAtEndOfResponse(s)
    /\ lifetimes' = EndOfResponse(s)

\* const res = await q('SELECT ... ORDER BY created_at DESC', [userId])
GamesQuery(s) ==
    /\ At(s, "games", "query")
    /\ \E fail \in BOOLEAN, tieAsc \in BOOLEAN :
        req' = [req EXCEPT ![s] = IF fail THEN Failed(req[s], 500, "internal")
                                  ELSE GamesResponse(req[s], tieAsc)]
    /\ UNCHANGED <<mig, mode, boots, clock, foreignKeys, userSeq, deleteIssued, users, games, nextSid, issued, started, registered, loggedOut>>
    /\ sessions' = TouchAtEndOfResponse(s)
    /\ lifetimes' = EndOfResponse(s)

(***************************************************************************)
(* DELETE FROM users WHERE id = ..., issued on the database                *)
(***************************************************************************)
\* the games table declares ON DELETE CASCADE (server.js, initPostgres) or a plain
\* FOREIGN KEY (initSqlite)
OnDeleteCascade(m) == m # "dual_sqlite"

UsersWithout(rows, id) == SelectSeq(rows, LAMBDA u : u.id # id)

GamesNotOf(table, id) == SelectSeq(table, LAMBDA g : g.user_id # id)

HasGames(table, id) == \E i \in 1..Len(table) : table[i].user_id = id

\* an open transaction has inserted a game of the user: its foreign key check holds
\* a lock on the users row and the DELETE waits for the transaction to end
LockedByInsert(id) ==
    \E t \in Slots : \E k \in 1..Len(req[t].tx) : req[t].tx[k].user_id = id

DeleteUser(id) ==
    /\ \E i \in 1..Len(users) : users[i].id = id
    /\ ~LockedByInsert(id)
    /\ deleteIssued' = deleteIssued \cup {id}
    /\ IF OnDeleteCascade(mode)
       THEN /\ users' = UsersWithout(users, id)
            /\ games' = GamesNotOf(games, id)
       ELSE IF foreignKeys /\ HasGames(games, id)
       THEN UNCHANGED <<users, games>>
       ELSE /\ users' = UsersWithout(users, id)
            /\ games' = games
    /\ UNCHANGED <<mig, mode, boots, clock, lifetimes, foreignKeys, userSeq, sessions, nextSid, issued, req, started, registered, loggedOut>>

(***************************************************************************)
(* Time                                                                    *)
(***************************************************************************)
\* a unit of time passes; requests are answered well within a unit
Tick ==
    /\ clock < MaxClock
    /\ \A s \in Slots : Free(s)
    /\ clock' = clock + 1
    /\ UNCHANGED <<mig, mode, boots, lifetimes, foreignKeys, userSeq, deleteIssued, users, games, sessions, nextSid,
                   issued, req, started, registered, loggedOut>>

(***************************************************************************)
(* Restart of the server process                                           *)
(***************************************************************************)
\* a session store that loses every session at a restart
StoreAfterRestartEmpty(m, store) == << >>

\* the Postgres session table outlives the process, MemoryStore does not
StoreAfterRestart(m, store) == IF m = "dual_sqlite" THEN << >> ELSE store

\* a bootstrap that creates the table anew
CreateTableAnew(exists, rows) == << >>

\* CREATE TABLE IF NOT EXISTS
CreateTableIfNotExists(exists, rows) == IF exists THEN rows ELSE << >>

\* the database has been bootstrapped by an earlier start
TablesExist == boots >= 1

\* the process stops and starts again: requests in flight are lost with their
\* connections (the database rolls their open transactions back), the session
\* store is opened and the schema bootstrap runs
Restart ==
    /\ boots < MaxBoots
    /\ boots' = boots + 1
    /\ req' = [s \in Slots |-> IdleReq]
    /\ sessions' = StoreAfterRestart(mode, sessions)
    /\ lifetimes' = [x \in DOMAIN sessions' |-> lifetimes[x]]
    /\ users' = CreateTableIfNotExists(TablesExist, users)
    /\ games' = CreateTableIfNotExists(TablesExist, games)
    /\ UNCHANGED <<mig, mode, clock, foreignKeys, userSeq, deleteIssued, nextSid, issued, started, registered, loggedOut>>

(***************************************************************************)
(* migrate_sqlite_to_postgres.js: the users and games of a SQLite file are   *)
(* copied into Postgres (the variables users, games, userSeq).               *)
(***************************************************************************)
\* userMap.set(k, v)
userMapSet(map, k, v) == [x \in DOMAIN map \cup {k} |-> IF x = k THEN v ELSE map[x]]

\* the script is not running
NoMigration ==
    [pc |-> "idle", dry |-> FALSE, sqliteUsers |-> <<>>, sqliteGames |-> <<>>,
     tables |-> TRUE,         \* the Postgres database has the tables users and games
     ui |-> 0, gi |-> 0,      \* positions of the two loops
     userMap |-> <<>>, insertedUsers |-> 0, insertedGames |-> 0,
     txUsers |-> <<>>, txGames |-> <<>>,              \* rows inserted since BEGIN
     reported |-> [users |-> 0, games |-> 0],          \* the counts of the last console.log
     \* history, read only by the properties: Postgres when the script started
     before |-> [tables |-> TRUE, users |-> <<>>, games |-> <<>>, seq |-> 0]]

\* Normalize fens field: ensure valid JSON string
fensStr(f) ==
    IF IsNullish(f) THEN EmptyArrayText
    ELSE IF f.k = "str" THEN (IF JsonParses(f.s) THEN f.s ELSE Stringify(JArr(<<f>>)))
    ELSE Stringify(f)

\* one turn of the loop over sqliteUsers, on st = [users, seq, userMap, inserted]
UserTurn(dry, u, st) ==
    LET existing == findUserByName(st.users, u.username)
    IN  IF existing # NoUser
        THEN [st EXCEPT !.userMap = userMapSet(@, u.id, existing.id)]
        ELSE IF dry THEN st
        ELSE [users |-> Append(st.users, [id |-> st.seq + 1, username |-> u.username,
                                          password_hash |-> u.password_hash]),
              seq |-> st.seq + 1,
              userMap |-> userMapSet(st.userMap, u.id, st.seq + 1),
              inserted |-> st.inserted + 1]

\* one turn of the loop over sqliteGames, on st = [games, userMap, inserted]
GameTurn(dry, g, st) ==
    IF g.user_id \notin DOMAIN st.userMap THEN st
    ELSE IF dry THEN [st EXCEPT !.inserted = @ + 1]
    ELSE [st EXCEPT !.inserted = @ + 1,
                    !.games = Append(@, [user_id |-> st.userMap[g.user_id], pgn |-> g.pgn,
                                         fens |-> fensStr(g.fens), created_at |-> g.created_at])]

\* for (const u of sqliteUsers) { ... }
RECURSIVE UserLoop(_, _, _)
UserLoop(dry, us, st) ==
    IF us = <<>> THEN st ELSE UserLoop(dry, Tail(us), UserTurn(dry, Head(us), st))

\* for (const g of sqliteGames) { ... }
RECURSIVE GameLoop(_, _, _)
GameLoop(dry, gs, st) ==
    IF gs = <<>> THEN st ELSE GameLoop(dry, Tail(gs), GameTurn(dry, Head(gs), st))

\* the rows after position n of a table
RowsAfter(rows, n) == SubSeq(rows, n + 1, Len(rows))

\* CREATE TABLE IF NOT EXISTS users / games, each committed on its own; then BEGIN
MigrateEnsureTables ==
    /\ mig.pc = "start"
    /\ users' = CreateTableIfNotExists(mig.tables, users)
    /\ games' = CreateTableIfNotExists(mig.tables, games)
    /\ mig' = [mig EXCEPT !.pc = "loop", !.tables = TRUE, !.ui = 1, !.gi = 1]
    /\ UNCHANGED <<mode, boots, clock, lifetimes, foreignKeys, userSeq, deleteIssued, sessions, nextSid, issued, req, started, registered, loggedOut>>

\* a query of the transaction fails: catch, ROLLBACK, process.exit(2)
MigrateFails ==
    /\ mig.pc = "loop"
    /\ users' = Rollback(users, mig.txUsers)
    /\ games' = Rollback(games, mig.txGames)
    /\ mig' = [mig EXCEPT !.pc = "failed", !.txUsers = <<>>, !.txGames = <<>>]
    /\ UNCHANGED <<mode, boots, clock, lifetimes, foreignKeys, userSeq, deleteIssued, sessions, nextSid, issued, req, started, registered, loggedOut>>

\* the rows the transaction has inserted are visible to its own queries
MigrateUser ==
    /\ mig.pc = "loop" /\ mig.ui <= Len(mig.sqliteUsers)
    /\ LET st == UserTurn(mig.dry, mig.sqliteUsers[mig.ui],
                          [users |-> users \o mig.txUsers, seq |-> userSeq, userMap |-> mig.userMap,
                           inserted |-> mig.insertedUsers])
       IN  /\ userSeq' = st.seq
           /\ mig' = [mig EXCEPT !.ui = @ + 1, !.userMap = st.userMap, !.insertedUsers = st.inserted,
                                 !.txUsers = RowsAfter(st.users, Len(users))]
    /\ UNCHANGED <<mode, boots, clock, lifetimes, foreignKeys, deleteIssued, users, games, sessions, nextSid, issued, req, started, registered, loggedOut>>

MigrateGame ==
    /\ mig.pc = "loop" /\ mig.ui > Len(mig.sqliteUsers) /\ mig.gi <= Len(mig.sqliteGames)
    /\ LET st == GameTurn(mig.dry, mig.sqliteGames[mig.gi],
                          [games |-> games \o mig.txGames, userMap |-> mig.userMap,
                           inserted |-> mig.insertedGames])
       IN  mig' = [mig EXCEPT !.gi = @ + 1, !.insertedGames = st.inserted,
                              !.txGames = RowsAfter(st.games, Len(games))]
    /\ UNCHANGED <<mode, boots, clock, lifetimes, foreignKeys, userSeq, deleteIssued, users, games, sessions, nextSid, issued, req, started, registered, loggedOut>>

\* COMMIT and 'Migration complete', or ROLLBACK and 'Dry-run complete'
MigrateEnd ==
    /\ mig.pc = "loop" /\ mig.ui > Len(mig.sqliteUsers) /\ mig.gi > Len(mig.sqliteGames)
    /\ users' = IF mig.dry THEN Rollback(users, mig.txUsers) ELSE Commit(users, mig.txUsers)
    /\ games' = IF mig.dry THEN Rollback(games, mig.txGames) ELSE Commit(games, mig.txGames)
    /\ mig' = [mig EXCEPT !.pc = "done", !.txUsers = <<>>, !.txGames = <<>>,
                          !.reported = [users |-> mig.insertedUsers, games |-> mig.insertedGames]]
    /\ UNCHANGED <<mode, boots, clock, lifetimes, foreignKeys, userSeq, deleteIssued, sessions, nextSid, issued, req, started, registered, loggedOut>>

(***************************************************************************)
(* Inputs of the requests                                                  *)
(***************************************************************************)
Alice == Str("alice")
Bob == Str("bob")
Pw1 == Str("pw1")
Pw2 == Str("pw2")

NotJsonText == <<"n", "o", "t", "-", "j", "s", "o", "n">>

NotJsonGame == Game("1.e4 e5", JStr(NotJsonText), DateAbsent)

GameInputs == {NotJsonGame, NullGame}

RECURSIVE SeqsUpTo(_, _)
SeqsUpTo(S, n) ==
    IF n = 0 THEN {<<>>}
    ELSE LET shorter == SeqsUpTo(S, n - 1)
         IN  shorter \cup {Append(q, x) : q \in {t \in shorter : Len(t) = n - 1}, x \in S}

PayloadInputs == {GamesAbsent, GamesNotArray} \cup {GamesArray(q) : q \in SeqsUpTo(GameInputs, MaxBatch)}

(***************************************************************************)
(* Specifications                                                          *)
(***************************************************************************)
Init ==
    /\ mode \in Modes
    /\ boots = 1
    /\ clock = 0
    /\ lifetimes = <<>>
    /\ foreignKeys \in (IF mode = "dual_sqlite" THEN BOOLEAN ELSE {TRUE})
    /\ userSeq = 0
    /\ deleteIssued = {}
    /\ users = <<>>
    /\ games = <<>>
    /\ sessions = <<>>
    /\ nextSid = 1
    /\ issued = {}
    /\ req = [s \in Slots |-> IdleReq]
    /\ started = 0
    /\ registered = {}
    /\ loggedOut = {}
    /\ mig = NoMigration

\* the steps of the handlers
RegisterStep(s) ==
    \/ RegisterEnter(s)
    \/ RegisterFind(s)
    \/ RegisterHash(s)
    \/ RegisterInsert(s)
    \/ Regenerate(s)
    \/ Bind(s)

LoginStep(s) ==
    \/ LoginEnter(s)
    \/ LoginFind(s)
    \/ LoginCompare(s)

LogoutStep(s) ==
    \/ LogoutEnter(s)
    \/ LogoutDestroy(s)

ImportStep(s) ==
    \/ ImportEnter(s)
    \/ ImportInsert(s)
    \/ ImportCommit(s)
    \/ ClientAbort(s)

GamesStep(s) ==
    \/ GamesEnter(s)
    \/ GamesQuery(s)

\* every endpoint, one user
AllRequests ==
    RegisterRequests({Alice}, {Pw1}) \cup LoginRequests({Alice}, {Pw1, Pw2})
        \cup {BareRequest("logout"), BareRequest("me"), BareRequest("games")}
        \cup ImportRequests({GamesNotArray, GamesArray(<<NotJsonGame>>), GamesArray(<<NotJsonGame, NullGame>>)})

Next ==
    \E s \in Slots :
        \/ Receive(s, AllRequests)
        \/ RegisterStep(s)
        \/ LoginStep(s)
        \/ LogoutStep(s)
        \/ Me(s)
        \/ ImportStep(s)
        \/ GamesStep(s)

Spec == Init /\ [][Next]_vars

\* registrations only, two usernames
RegisterOnlyRequests ==
    RegisterRequests({Alice, Bob}, {Pw1, Undefined})
        \cup RegisterRequests({NumberValue}, {Pw1}) \cup RegisterRequests({Alice}, {NumberValue})

NextRegister == \E s \in Slots : Receive(s, RegisterOnlyRequests) \/ RegisterStep(s)

SpecRegister == Init /\ [][NextRegister]_vars

\* register, login, logout, whoami
AuthRequests ==
    RegisterRequests({Alice}, {Pw1}) \cup LoginRequests({Alice, Bob}, {Pw1, Pw2, NumberValue})
        \cup {BareRequest("logout"), BareRequest("me")}

NextAuth ==
    \E s \in Slots :
        \/ Receive(s, AuthRequests)
        \/ RegisterStep(s)
        \/ LoginStep(s)
        \/ LogoutStep(s)
        \/ Me(s)

SpecAuth == Init /\ [][NextAuth]_vars

\* register, import, list
GamesRequests ==
    RegisterRequests({Alice}, {Pw1}) \cup ImportRequests(PayloadInputs) \cup {BareRequest("games")}

NextGames ==
    \E s \in Slots :
        \/ Receive(s, GamesRequests)
        \/ RegisterStep(s)
        \/ ImportStep(s)
        \/ GamesStep(s)

SpecGames == Init /\ [][NextGames]_vars

\* register, import, and deletion of users on the database
SchemaRequests ==
    RegisterRequests({Alice}, {Pw1}) \cup ImportRequests({GamesArray(<<NotJsonGame>>)})

UserIds == 1..MaxReq

NextSchema ==
    \/ \E s \in Slots :
        \/ Receive(s, SchemaRequests)
        \/ RegisterStep(s)
        \/ ImportStep(s)
    \/ \E id \in UserIds : DeleteUser(id)

SpecSchema == Init /\ [][NextSchema]_vars

\* register and whoami while time passes
ExpiryRequests == RegisterRequests({Alice}, {Pw1}) \cup {BareRequest("me")}

NextExpiry ==
    \/ \E s \in Slots :
        \/ Receive(s, ExpiryRequests)
        \/ RegisterStep(s)
        \/ Me(s)
    \/ Tick

SpecExpiry == Init /\ [][NextExpiry]_vars

\* register, whoami and import around a restart
RestartRequests ==
    RegisterRequests({Alice}, {Pw1}) \cup {BareRequest("me")}
        \cup ImportRequests({GamesArray(<<NotJsonGame>>)})

NextRestart ==
    \/ \E s \in Slots :
        \/ Receive(s, RestartRequests)
        \/ RegisterStep(s)
        \/ Me(s)
        \/ ImportStep(s)
    \/ Restart

SpecRestart == Init /\ [][NextRestart]_vars

\* values of the fens field of an imported record
ParseableArrayText == <<"[", "\"", "a", "\"", "]">>
ParseableScalarText == <<"4", "2">>
QuoteText == <<"\"">>

FensInputs ==
    {JUndefined, JNull,
     JStr(<<>>), JStr(ParseableScalarText), JStr(ParseableArrayText), JStr(QuoteText),
     JNum(7), JBool(FALSE),
     JArr(<<JStr(<<"a">>)>>), JObj(<< <<(<<"k">>), JNum(1)>> >>)}

\* register, import of one record with any fens, list
FensRequests ==
    RegisterRequests({Alice}, {Pw1})
        \cup ImportRequests({GamesArray(<<Game("1.e4 e5", f, DateAbsent)>>) : f \in FensInputs})
        \cup {BareRequest("games")}

NextFens ==
    \E s \in Slots :
        \/ Receive(s, FensRequests)
        \/ RegisterStep(s)
        \/ ImportStep(s)
        \/ GamesStep(s)

SpecFens == Init /\ [][NextFens]_vars

\* records with a historical date, a later one, and none
DatedGames ==
    {Game("1.e4 e5", JNull, DateAt(1)), Game("1.d4 d5", JNull, DateAt(2)), Game("1.c4 c5", JNull, DateAbsent)}

\* register, import of one record with or without a date, list, while time passes
ListingRequests ==
    RegisterRequests({Alice}, {Pw1})
        \cup ImportRequests({GamesArray(<<g>>) : g \in DatedGames})
        \cup {BareRequest("games")}

NextListing ==
    \/ \E s \in Slots :
        \/ Receive(s, ListingRequests)
        \/ RegisterStep(s)
        \/ ImportStep(s)
        \/ GamesStep(s)
    \/ Tick

SpecListing == Init /\ [][NextListing]_vars

\* two users, one request at a time: register, log in, import one record, list
OwnerRequests ==
    RegisterRequests({Alice, Bob}, {Pw1}) \cup LoginRequests({Alice, Bob}, {Pw1})
        \cup ImportRequests({GamesArray(<<Game("1.e4 e5", JNull, DateAbsent)>>)})
        \cup {BareRequest("games")}

NextOwners ==
    \/ ReceiveWithin(1, OwnerRequests, MaxOwnerReq)
    \/ RegisterStep(1)
    \/ LoginStep(1)
    \/ ImportStep(1)
    \/ GamesStep(1)

SpecOwners == Init /\ [][NextOwners]_vars

\* the two backends of the dual-mode server
OtherBackend(m) == IF m = "dual_pg" THEN "dual_sqlite" ELSE "dual_pg"

\* one client, one request at a time: every route, imports of records whose pgn
\* is a string or the boolean true
BackendRequests ==
    RegisterRequests({Alice}, {Pw1}) \cup LoginRequests({Alice}, {Pw1, Pw2})
        \cup {BareRequest("logout"), BareRequest("me"), BareRequest("games")}
        \cup ImportRequests({GamesArray(<<Game("1.e4 e5", JNull, DateAbsent)>>),
                             GamesArray(<<GameOfPgn(BooleanValue, JNull, DateAbsent)>>)})

NextBackends ==
    \/ ReceiveWithin(1, BackendRequests, MaxReq)
    \/ RegisterStep(1)
    \/ LoginStep(1)
    \/ LogoutStep(1)
    \/ Me(1)
    \/ ImportStep(1)
    \/ GamesStep(1)

SpecBackends == Init /\ [][NextBackends]_vars

\* contents of the SQLite file: users with their ids, games of these users and
\* of a user whose row is gone (SQLite does not cascade the delete)
SqliteUser(id, name) == [id |-> id, username |-> ToText(name), password_hash |-> bcryptHash(Pw1)]
SqliteGame(userId, fens) == [user_id |-> userId, pgn |-> "1.e4 e5", fens |-> fens, created_at |-> 1]

SqliteUsersInputs ==
    {<<>>, <<SqliteUser(1, Alice)>>, <<SqliteUser(2, Bob)>>, <<SqliteUser(1, Alice), SqliteUser(2, Bob)>>}

SqliteGamesInputs ==
    SeqsUpTo({SqliteGame(1, JNull), SqliteGame(2, JStr(NotJsonText)), SqliteGame(3, JNull)}, MaxBatch)

\* contents of Postgres when the script starts: no tables, empty tables, or a
\* users table where bob has registered
PostgresInputs ==
    {[tables |-> FALSE, users |-> <<>>, games |-> <<>>, seq |-> 0],
     [tables |-> TRUE, users |-> <<>>, games |-> <<>>, seq |-> 0],
     [tables |-> TRUE, users |-> <<[id |-> 1, username |-> "bob", password_hash |-> bcryptHash(Pw2)]>>,
      games |-> <<>>, seq |-> 1]}

\* node migrate_sqlite_to_postgres.js [--dry], no server running
InitMigrate ==
    /\ mode = "pg_only"
    /\ boots = 0
    /\ clock = 0
    /\ lifetimes = <<>>
    /\ foreignKeys = TRUE
    /\ deleteIssued = {}
    /\ sessions = <<>>
    /\ nextSid = 1
    /\ issued = {}
    /\ req = [s \in Slots |-> IdleReq]
    /\ started = 0
    /\ registered = {}
    /\ loggedOut = {}
    /\ \E dry \in BOOLEAN, us \in SqliteUsersInputs, gs \in SqliteGamesInputs, pg \in PostgresInputs :
        /\ users = pg.users
        /\ games = pg.games
        /\ userSeq = pg.seq
        /\ mig = [NoMigration EXCEPT !.pc = "start", !.dry = dry, !.sqliteUsers = us,
                                     !.sqliteGames = gs, !.tables = pg.tables, !.before = pg]

NextMigrate ==
    \/ MigrateEnsureTables
    \/ MigrateUser
    \/ MigrateGame
    \/ MigrateFails
    \/ MigrateEnd

SpecMigrate == InitMigrate /\ [][NextMigrate]_vars

(***************************************************************************)
(* Properties                                                              *)
(***************************************************************************)
Done(s) == req[s].pc = "done"

\* the step in which the request of slot s is answered
Responds(s) == req[s].pc \notin {"idle", "done"} /\ req'[s].pc = "done"

\* a step taken by the request of slot s
StepOf(s) ==
    /\ req[s].pc \notin {"idle", "done"}
    /\ [req'[s] EXCEPT !.overtaken = FALSE] # [req[s] EXCEPT !.overtaken = FALSE]

NonEmptyString(x) == x.t = "string" /\ x.v # ""

\* C1: when two register requests for the same, previously unused username run
\* concurrently, exactly one is answered 201 and the other 409 username_taken;
\* the loser gets no other status.
C1_ConcurrentRegisterOne201Other409 ==
    \A s, t \in Slots :
        (/\ s # t
         /\ Done(s) /\ Done(t)
         /\ req[s].op = "register" /\ req[t].op = "register"
         /\ req[s].username = req[t].username
         /\ ~req[s].existed /\ ~req[t].existed
         /\ ~req[s].fault /\ ~req[t].fault
         /\ req[s].status # 400 /\ req[t].status # 400)
        => {req[s].status, req[t].status} = {201, 409}

\* C2: in every reachable state no two rows of the users table have the same username.
C2_UsernamesUnique ==
    \A i, j \in 1..Len(users) : users[i].username = users[j].username => i = j

\* a second insert of a username was attempted and refused, and two users exist
C2_Witness ==
    /\ Len(users) = 2
    /\ \E s \in Slots : Done(s) /\ req[s].op = "register" /\ req[s].status = 500 /\ ~req[s].fault

\* C3: a register for a username that already had a row when the request arrived
\* (valid input, no storage failure) is answered 409 username_taken, and no step
\* of the request adds a user row or writes a session.
C3_RegisterExistingIs409 ==
    [][\A s \in Slots :
        (/\ StepOf(s)
         /\ req[s].op = "register" /\ req[s].existed
         /\ NonEmptyString(req[s].username) /\ NonEmptyString(req[s].password)
         /\ ~req'[s].fault)
        => /\ users' = users /\ sessions' = sessions /\ issued' = issued
           /\ req'[s].pc \in {"find", "done"}
           /\ Responds(s) => req'[s].status = 409 /\ req'[s].body = [error |-> "username_taken"]]_vars

C3_Witness ==
    \E s \in Slots :
        /\ Done(s) /\ req[s].op = "register" /\ req[s].existed
        /\ req[s].status = 409 /\ Len(users) = 1

\* the row of the users table with this username
RowNamed(name) == users[CHOOSE i \in 1..Len(users) : users[i].username = name]

\* C4: a login with credentials for which a register was answered 201 before the
\* login arrived (no storage failure) is answered 200 with the same username, and
\* the session of the response is stored as that user's.
C4_LoginAfterRegister ==
    [][\A s \in Slots :
        (Responds(s) /\ req[s].op = "login" /\ req[s].known /\ ~req'[s].fault)
        => /\ req'[s].status = 200
           /\ req'[s].body = [username |-> req[s].username.v]
           /\ req'[s].sid \in DOMAIN sessions'
           /\ sessions'[req'[s].sid] = [userId |-> RowNamed(req[s].username.v).id,
                                        username |-> req[s].username.v]]_vars

C4_Witness ==
    \E s \in Slots :
        /\ Done(s) /\ req[s].op = "login" /\ req[s].known /\ req[s].status = 200
        /\ req[s].sid \in DOMAIN sessions /\ sessions[req[s].sid].username = "alice"

\* the username has a completed registration, with another password
WrongPassword(u, p) ==
    /\ \E c \in registered : c.username = u
    /\ [username |-> u, password |-> p] \notin registered

\* C5: a login with a username that has no row and a login with an existing
\* username but a wrong password get the same answer, 401 invalid_credentials,
\* and no step of such a request changes the session store or the tables.
C5_LoginFailuresIdentical ==
    [][\A s \in Slots :
        (/\ StepOf(s) /\ req[s].op = "login"
         /\ Truthy(req[s].username) /\ Truthy(req[s].password)
         /\ ~HasRow(users, req[s].username.v) \/ WrongPassword(req[s].username, req[s].password)
         /\ ~req'[s].fault)
        => /\ users' = users /\ games' = games /\ sessions' = sessions
           /\ Responds(s) => req'[s].status = 401 /\ req'[s].body = [error |-> "invalid_credentials"]]_vars

\* C6: an identifier for which logout has answered {ok: true} is not in the
\* session store again, and every auth-required request that arrives with it
\* afterwards is answered 401 not_authenticated.
C6_LoggedOutStaysOut ==
    /\ \A sid \in loggedOut : sid \notin DOMAIN sessions
    /\ \A s \in Slots :
        (Done(s) /\ req[s].op \in {"me", "import", "games"} /\ req[s].afterLogout)
        => req[s].status = 401 /\ req[s].body = [error |-> "not_authenticated"]

C6_Witness ==
    \E s \in Slots :
        /\ Done(s) /\ req[s].op = "me" /\ req[s].afterLogout
        /\ req[s].cookie \in loggedOut /\ req[s].status = 401

\* C7: identity fields are only ever written to the store under an identifier
\* that no client was ever given, and the identifier of a successful register or
\* login differs from the cookie the request carried and from every identifier
\* issued before.
C7_BindOnlyFreshSid ==
    [][/\ \A sid \in DOMAIN sessions' :
            (sid \notin DOMAIN sessions \/ sessions'[sid] # sessions[sid]) => sid \notin issued
       /\ \A s \in Slots :
            (Responds(s) /\ req'[s].status \in {200, 201} /\ req[s].op \in {"register", "login"})
            => /\ req'[s].sid \notin issued \cup DOMAIN sessions \cup {0, req[s].cookie, req[s].oldSid}
               /\ req'[s].sid \in DOMAIN sessions']_vars

\* a login or register that carried a live session was answered under a new identifier
C7_Witness ==
    \E s \in Slots :
        /\ Done(s) /\ req[s].op \in {"register", "login"} /\ req[s].status \in {200, 201}
        /\ req[s].oldSid # 0 /\ req[s].cookie = req[s].oldSid /\ req[s].sid # req[s].oldSid

\* the request of slot s has an authenticated session and an array payload, so its
\* handler calls insertGamesBulk
InBulkInsert(s) ==
    /\ req[s].op = "import" /\ req[s].payload.kind = "array"
    /\ \/ req[s].pc = "tx"
       \/ req[s].pc = "arrived" /\ LoadSession(req[s].cookie).userId # 0

\* a record whose insert fails: null, or a date Postgres cannot read as a timestamp
RecordFails(g) == g.isNull \/ (mode = "pg_only" /\ g.date.k = "garbage")

BatchFails(items) == \E i \in 1..Len(items) : RecordFails(items[i])

\* the user the rows of the request are inserted for
Owner(s) == IF req[s].pc = "arrived" THEN LoadSession(req[s].cookie).userId ELSE req[s].sess.userId

\* C8 (as claimed): if a record of the batch fails, a storage call fails or the
\* client abandons the request mid-way, the transaction is rolled back, the games
\* table is as before the call and the answer is 500.
C8_FailureOrAbandonRollsBack ==
    [][\A s \in Slots :
        (Responds(s) /\ InBulkInsert(s)
            /\ (BatchFails(req[s].payload.items) \/ req'[s].fault \/ req'[s].aborted))
        => games' = games /\ req'[s].status = 500]_vars

\* C8 (amended): insertGamesBulk is all-or-nothing, also for a request the client
\* has abandoned. The only step of an import that changes the games table is the
\* one answered 200, which appends one row per record of the batch, all owned by
\* the session's user; a batch with a failing record or a failed storage call
\* leaves the table unchanged and is answered 500.
C8_BulkInsertAtomic ==
    [][\A s \in Slots :
        (StepOf(s) /\ req[s].op = "import")
        => IF Responds(s) /\ req'[s].status = 200
           THEN /\ ~BatchFails(req[s].payload.items)
                /\ Len(games') = Len(games) + Len(req[s].payload.items)
                /\ SubSeq(games', 1, Len(games)) = games
                /\ \A i \in (Len(games) + 1)..Len(games') : games'[i].user_id = Owner(s)
           ELSE /\ games' = games
                /\ (Responds(s) /\ InBulkInsert(s)) => req'[s].status = 500]_vars

\* an abandoned import failed at its second record, after the first was inserted,
\* and nothing of it is in the table
C8_Witness ==
    \E s \in Slots :
        /\ Done(s) /\ req[s].op = "import" /\ req[s].aborted /\ ~req[s].fault
        /\ req[s].status = 500 /\ req[s].idx = 2
        /\ games = <<>>

\* C9: an import by an authenticated user whose body has no games field, or one
\* that is not an array, is answered 400 invalid_payload at once and leaves the
\* games table unchanged.
C9_InvalidPayloadIs400 ==
    [][\A s \in Slots :
        (/\ StepOf(s) /\ req[s].op = "import" /\ req[s].pc = "arrived"
         /\ LoadSession(req[s].cookie).userId # 0
         /\ req[s].payload.kind # "array")
        => /\ Responds(s)
           /\ req'[s].status = 400 /\ req'[s].body = [error |-> "invalid_payload"]
           /\ games' = games]_vars

C9_Witness ==
    \E s \in Slots :
        /\ Done(s) /\ req[s].op = "import" /\ req[s].cookie \in DOMAIN sessions
        /\ req[s].status = 400 /\ req[s].body = [error |-> "invalid_payload"]

\* the text ["not-json"]
WrappedNotJsonText == <<"[", "\"", "n", "o", "t", "-", "j", "s", "o", "n", "\"", "]">>

\* C10: a record whose fens is the string not-json, which is not valid JSON, is
\* stored with the text ["not-json"], and GET /api/games returns its fens as the
\* one-element array holding that string, in every server variant and backend.
\* (Every record that SpecGames imports has this fens.)
C10_NotJsonFensWrapped ==
    [][\A s \in Slots :
        /\ (Responds(s) /\ req[s].op = "import" /\ req'[s].status = 200)
           => \A i \in 1..Len(req[s].payload.items) :
                 req[s].payload.items[i].fens = JStr(NotJsonText)
                 => games'[Len(games) + i].fens = WrappedNotJsonText
        /\ (Responds(s) /\ req[s].op = "games" /\ req'[s].status = 200)
           => \A i \in 1..Len(req'[s].body.games) :
                 req'[s].body.games[i].fens = JArr(<<JStr(NotJsonText)>>)]_vars

Guarded == {"me", "import", "games"}

\* C11: a request to /api/me, /api/import or /api/games whose session has no bound
\* userId (no cookie, unknown or destroyed identifier) is answered 401
\* not_authenticated in the step that enters the handler and leaves the games
\* table unchanged; a request is between the storage calls of the game store, and
\* the games table changes, only for a session with a bound userId.
C11_UnauthenticatedIs401 ==
    [][\A s \in Slots :
        /\ (StepOf(s) /\ req[s].op \in Guarded /\ req[s].pc = "arrived"
                /\ LoadSession(req[s].cookie).userId = 0)
           => /\ Responds(s)
              /\ req'[s].status = 401 /\ req'[s].body = [error |-> "not_authenticated"]
              /\ games' = games
        /\ req'[s].pc \in {"tx", "query"} => req'[s].sess.userId # 0
        /\ (StepOf(s) /\ games' # games) => (req[s].op = "import" /\ Owner(s) # 0)]_vars

\* an import that came with a logged-out identifier was answered 401
C11_Witness ==
    \E s \in Slots :
        /\ Done(s) /\ req[s].op = "import" /\ req[s].afterLogout
        /\ req[s].status = 401 /\ games = <<>>

\* C12: POST /api/logout is answered {ok: true} for every caller (authenticated
\* session, anonymous session, no cookie, destroyed identifier), however often it
\* is repeated, and afterwards the identifier it came with is not authenticated.
C12_LogoutAlwaysOk ==
    [][\A s \in Slots :
        (Responds(s) /\ req[s].op = "logout")
        => /\ req'[s].status = 200 /\ req'[s].body = [ok |-> TRUE]
           /\ req[s].cookie \notin DOMAIN sessions']_vars

\* C13: a register request whose username or password is missing, empty or not a
\* string is answered 400 (unless a storage call failed), and no step of it adds
\* a user or writes a session, in every server variant.
C13_RegisterInvalidInputIs400 ==
    [][\A s \in Slots :
        (StepOf(s) /\ req[s].op = "register"
            /\ ~(NonEmptyString(req[s].username) /\ NonEmptyString(req[s].password)))
        => /\ users' = users /\ sessions' = sessions
           /\ (Responds(s) /\ ~req'[s].fault)
              => (req'[s].status = 400
                  /\ req'[s].body = [error |-> "username_and_password_required"])]_vars

\* C14: every row of the games table references an existing user, and a user for
\* whom DELETE was issued is gone together with all of that user's games, in every
\* backend.
C14_GamesReferenceUsersAndCascade ==
    /\ \A i \in 1..Len(games) : \E j \in 1..Len(users) : users[j].id = games[i].user_id
    /\ \A id \in deleteIssued :
        /\ ~\E j \in 1..Len(users) : users[j].id = id
        /\ ~HasGames(games, id)

\* the text of a password as it would be stored without hashing
PlainText(p) == <<p.v>>

\* C15: the step of a register request that adds a users row finds the hash of the
\* request's password already computed, and the row it adds holds that hash; no
\* row of the users table ever holds the plaintext of a password a client sent.
C15_HashBeforeInsert ==
    [][/\ \A s \in Slots :
            (StepOf(s) /\ req[s].op = "register" /\ users' # users)
            => /\ req[s].pc = "insert"
               /\ req[s].hash = bcryptHash(req[s].password)
               /\ users' = Append(users, users'[Len(users')])
               /\ users'[Len(users')].password_hash = req[s].hash
       /\ \A i \in 1..Len(users') :
            users'[i].password_hash \notin {PlainText(p) : p \in {Pw1, Pw2, NumberValue, Undefined}}]_vars

\* bob's row holds the hash of the password bob registered with
C15_Witness ==
    \E i \in 1..Len(users) :
        /\ users[i].username = "bob" /\ users[i].password_hash = bcryptHash(Pw1)
        /\ users[i].password_hash # PlainText(Pw1)

\* C16: a session is authenticated for MaxAge from its creation and no longer: a
\* request to a guarded route that carries the identifier of a stored session
\* when that window has passed is answered 401, whatever requests came before.
C16_FixedWindowFromCreation ==
    [][\A s \in Slots :
        (/\ StepOf(s) /\ req[s].op \in Guarded /\ req[s].pc = "arrived"
         /\ req[s].cookie \in DOMAIN lifetimes
         /\ clock >= lifetimes[req[s].cookie].created + MaxAge)
        => (Responds(s) /\ req'[s].status = 401)]_vars

\* the step is a restart of the server process
Restarts == boots' # boots

\* C17: a restart keeps the stored sessions of the Postgres-backed store, so that
\* a session authenticated before the restart answers /api/me as the same user
\* after it; with the in-memory store of the SQLite mode the restart leaves no
\* session, while users and games persist in every mode.
C17_SessionsAcrossRestart ==
    [][/\ Restarts
          => /\ users' = users /\ games' = games
             /\ IF mode = "dual_sqlite" THEN sessions' = << >>
                ELSE sessions' = sessions /\ lifetimes' = lifetimes
       /\ \A s \in Slots :
            (/\ StepOf(s) /\ ~Restarts /\ req[s].op = "me" /\ req[s].pc = "arrived"
             /\ Live(req[s].cookie) /\ sessions[req[s].cookie].userId # 0
             /\ lifetimes[req[s].cookie].boot < boots)
            => /\ mode # "dual_sqlite"
               /\ req'[s].status = 200
               /\ req'[s].body = [username |-> sessions[req[s].cookie].username]]_vars

\* whoami was answered 200 for a session bound before the restart
C17_Witness ==
    \E s \in Slots :
        /\ Done(s) /\ req[s].op = "me" /\ req[s].status = 200
        /\ req[s].cookie \in DOMAIN lifetimes
        /\ lifetimes[req[s].cookie].boot < boots

\* C18: the schema bootstrap that runs at a start of the server on a database
\* whose tables exist leaves every users row and every games row as it was.
C18_BootstrapIdempotent ==
    [][(Restarts /\ TablesExist) => (users' = users /\ games' = games)]_vars

\* the server has started a second time on a database holding a user and a game
C18_Witness == boots = 2 /\ users # << >> /\ games # << >>

\* the request of slot s is a register or login that was answered with success
Succeeded(r) == r.pc = "done" /\ r.op \in {"register", "login"} /\ r.status \in {200, 201}

CommittedOf(userId) == {i \in 1..Len(games) : games[i].user_id = userId}

\* C20: a listing answered by GET /api/games holds exactly the committed rows of
\* the user, so none of the rows an import in flight has inserted; the games table
\* changes only by the commit of an import, which appends its whole batch at
\* once; and the rows already in the table stay as they are.
C20_ImportNeverPartiallyVisible ==
    [][/\ \A s \in Slots :
            (Responds(s) /\ req[s].op = "games" /\ req'[s].status = 200)
            => /\ Len(req'[s].body.games) = Cardinality(CommittedOf(Owner(s)))
               /\ \A k \in 1..Len(req'[s].body.games) :
                    \E i \in CommittedOf(Owner(s)) :
                        /\ games[i].pgn = req'[s].body.games[k].pgn
                        /\ games[i].created_at = req'[s].body.games[k].date
       /\ games' # games
          => \E s \in Slots :
                /\ StepOf(s) /\ req[s].op = "import" /\ req'[s].status = 200
                /\ Len(games') = Len(games) + Len(req[s].payload.items)
       /\ Len(games') >= Len(games)
       /\ SubSeq(games', 1, Len(games)) = games]_vars

\* a listing was answered with no record while an import of the same user, which
\* arrived before it, had inserted a row and not yet committed
C20_Witness ==
    \E s, t \in Slots :
        /\ req[t].op = "import" /\ req[t].pc = "tx" /\ Len(req[t].tx) >= 1
        /\ Done(s) /\ req[s].op = "games" /\ req[s].status = 200
        /\ req[s].body.games = <<>>
        /\ req[s].cookie = req[t].cookie

\* C21: every fens text in the games table is the JSON encoding of an array, and
\* every fens that GET /api/games returns is an array, whatever fens was imported.
C21_StoredFensIsArray ==
    /\ \A i \in 1..Len(games) :
        JsonParses(games[i].fens) /\ JsonParse(games[i].fens).val.k = "arr"
    /\ \A s \in Slots :
        (Done(s) /\ req[s].op = "games" /\ req[s].status = 200)
        => \A k \in 1..Len(req[s].body.games) : req[s].body.games[k].fens.k = "arr"

\* C22: a committed record's fens text is '[]' when the input fens is absent or
\* null, the input string itself when it parses as JSON, and JSON.stringify of
\* the input when it is an array or an object.
C22_FensNormalization ==
    [][\A s \in Slots :
        (req[s].op = "import" /\ Responds(s) /\ req'[s].status = 200)
        => \A i \in 1..Len(req[s].payload.items) :
            LET f == req[s].payload.items[i].fens
                stored == games'[Len(games) + i].fens
            IN  /\ IsNullish(f) => stored = EmptyArrayText
                /\ (f.k = "str" /\ JsonParses(f.s)) => stored = f.s
                /\ f.k \in {"arr", "obj"} => stored = Stringify(f)]_vars

\* C30: every fens text that an import stores is valid JSON; a listing of an
\* authenticated user fails with 500 only on a storage fault, never because of a
\* stored fens; and each returned record carries the JSON decoding of the fens
\* text of a stored row of that user.
C30_FensRoundTrip ==
    [][/\ \A i \in 1..Len(games') : JsonParses(games'[i].fens)
       /\ \A s \in Slots :
            (req[s].op = "games" /\ Responds(s) /\ req'[s].status # 401 /\ ~req'[s].fault)
            => /\ req'[s].status = 200
               /\ Len(req'[s].body.games) = Cardinality(CommittedOf(Owner(s)))
               /\ \A k \in 1..Len(req'[s].body.games) :
                    \E i \in CommittedOf(Owner(s)) :
                        /\ req'[s].body.games[k].pgn = games[i].pgn
                        /\ req'[s].body.games[k].fens = JsonParse(games[i].fens).val]_vars

\* a string that is not JSON and holds a quote was imported, stored escaped, and a
\* listing returned it decoded
C30_Witness ==
    \E s \in Slots :
        /\ Done(s) /\ req[s].op = "games" /\ req[s].status = 200
        /\ Len(req[s].body.games) >= 1
        /\ \E k \in 1..Len(req[s].body.games) :
            req[s].body.games[k].fens \in {JStr(QuoteText), JArr(<<JStr(QuoteText)>>)}

\* C23: an import of N records that is answered 200 answers { imported: N }, adds
\* exactly N rows to the games table, all owned by the session's user, and leaves
\* every row that existed before, and the users table, as they were.
C23_ImportAddsExactlyNOwnedRows ==
    [][\A s \in Slots :
        (req[s].op = "import" /\ Responds(s) /\ req'[s].status = 200)
        => LET n == Len(req[s].payload.items)
           IN  /\ req'[s].body = [imported |-> n]
               /\ Len(games') = Len(games) + n
               /\ SubSeq(games', 1, Len(games)) = games
               /\ \A i \in 1..n :
                    /\ games'[Len(games) + i].user_id = Owner(s)
                    /\ games'[Len(games) + i].pgn = req[s].payload.items[i].pgn
               /\ Owner(s) # 0
               /\ users' = users]_vars

\* an import of two records was answered { imported: 2 } on top of earlier rows
C23_Witness ==
    \E s \in Slots :
        /\ Done(s) /\ req[s].op = "import" /\ req[s].status = 200
        /\ req[s].body = [imported |-> 2]
        /\ Len(games) > 2

\* C24: a listing answered 200 holds every stored record of the session's user and
\* no other, each record is at least as new as the one after it, and the request
\* changes nothing: not the users, not the games, not the stored sessions or
\* their expiry.
C24_ListingNewestFirstPureRead ==
    [][\A s \in Slots :
        (req[s].op = "games" /\ Responds(s) /\ req'[s].status = 200)
        => LET out == req'[s].body.games
           IN  /\ Len(out) = Cardinality(CommittedOf(Owner(s)))
               /\ \A i \in CommittedOf(Owner(s)) :
                    \E k \in 1..Len(out) :
                        out[k].pgn = games[i].pgn /\ out[k].date = games[i].created_at
               /\ \A k \in 1..(Len(out) - 1) : out[k].date >= out[k + 1].date
               /\ UNCHANGED <<users, games, sessions, lifetimes>>]_vars

\* the listing and ordering half of C24 alone, with the stored rows left as they were
ListingNewestFirst ==
    [][\A s \in Slots :
        (req[s].op = "games" /\ Responds(s) /\ req'[s].status = 200)
        => LET out == req'[s].body.games
           IN  /\ Len(out) = Cardinality(CommittedOf(Owner(s)))
               /\ \A i \in CommittedOf(Owner(s)) :
                    \E k \in 1..Len(out) :
                        out[k].pgn = games[i].pgn /\ out[k].date = games[i].created_at
               /\ \A k \in 1..(Len(out) - 1) : out[k].date >= out[k + 1].date
               /\ UNCHANGED <<users, games, sessions>>]_vars

\* C25: a committed record whose input supplies a date is stored with that date as
\* created_at, one without a date with the time of the import, and a listing
\* returns the stored created_at as the record's date, in every server variant.
C25_SuppliedDateIsStored ==
    [][\A s \in Slots :
        /\ (req[s].op = "import" /\ Responds(s) /\ req'[s].status = 200)
           => \A i \in 1..Len(req[s].payload.items) :
                LET g == req[s].payload.items[i]
                    at == games'[Len(games) + i].created_at
                    arrived == IF req[s].began # 0 THEN req[s].began ELSE Now
                IN  /\ g.date.k = "date" => at = g.date.t
                    /\ g.date.k = "absent" => (arrived <= at /\ at <= Now)
        /\ (req[s].op = "games" /\ Responds(s) /\ req'[s].status = 200)
           => \A k \in 1..Len(req'[s].body.games) :
                \E i \in CommittedOf(Owner(s)) :
                    /\ req'[s].body.games[k].pgn = games[i].pgn
                    /\ req'[s].body.games[k].date = games[i].created_at]_vars

\* C26: when a logout destroys a session that another request (import, games, me
\* or a login that fails) has loaded and is still working with, the completion of
\* that request writes nothing to the session store, and once it has completed the
\* session identifier is not stored any more: it is not re-created or re-saved.
C26_InFlightNeverRevivesSession ==
    [][\A s \in Slots :
        LET r == req'[s]
        IN  (/\ r.pc = "done" /\ r.overtaken
             /\ (r.op \in Guarded \/ (r.op = "login" /\ r.status \in {400, 401})))
            => /\ r.oldSid \notin DOMAIN sessions'
               /\ Responds(s) => sessions' = sessions]_vars

\* an import and a failed login completed after a logout had destroyed the session
\* they were working with, and the logout completed too
C26_Witness ==
    \E s, t \in Slots :
        /\ Done(s) /\ req[s].overtaken /\ req[s].op = "import" /\ req[s].status = 200
        /\ req[s].oldSid # 0 /\ req[s].oldSid \in loggedOut
        /\ Done(t) /\ req[t].op = "logout" /\ req[t].status = 200 /\ req[t].cookie = req[s].oldSid

\* a failed login completed after a logout had destroyed the session it had loaded
C26_WitnessLogin ==
    \E s \in Slots :
        /\ Done(s) /\ req[s].overtaken /\ req[s].op = "login" /\ req[s].status = 401
        /\ req[s].oldSid \in loggedOut

\* C27: a registration is answered 201 exactly when the request has inserted a
\* user row: a request answered 400, 409 or 500 (internal or session_error) has
\* inserted none.
C27_Register201IffRowAdded ==
    [][\A s \in Slots :
        (req[s].op = "register" /\ Responds(s))
        => LET inserted == req[s].newId # 0 \/ users' # users
           IN  (req'[s].status = 201) <=> inserted]_vars

\* C28: with several users registering, logging in and importing, a listing
\* answered 200 returns exactly the stored records whose user_id is the user of
\* the session, and no record of another user.  (In SpecOwners every import
\* happens at a time of its own, so a record's date tells which row it is.)
C28_OwnerIsolation ==
    [][(req[1].op = "games" /\ Responds(1) /\ req'[1].status = 200)
        => LET out == req'[1].body.games
               mine == CommittedOf(Owner(1))
           IN  /\ Owner(1) # 0
               /\ Len(out) = Cardinality(mine)
               /\ \A i \in mine : \E k \in 1..Len(out) : out[k].date = games[i].created_at
               /\ \A k \in 1..Len(out) :
                    \A i \in 1..Len(games) :
                        games[i].created_at = out[k].date => games[i].user_id = Owner(1)]_vars

\* both users own records and a listing returned one user's records only
C28_Witness ==
    /\ \E i, j \in 1..Len(games) : games[i].user_id # games[j].user_id
    /\ Done(1) /\ req[1].op = "games" /\ req[1].status = 200
    /\ Len(req[1].body.games) >= 1 /\ Len(req[1].body.games) < Len(games)

C31_BackendsAnswerAlike ==
    [][(/\ mode \in {"dual_pg", "dual_sqlite"}
        /\ req[1].op = "import" /\ Responds(1)
        /\ req'[1].status \notin {400, 401} /\ ~req'[1].fault)
        => LET items == req[1].payload.items
               other == BulkRows(OtherBackend(mode), Owner(1), items, Now)
           IN  /\ (req'[1].status = 200) <=> other.ok
               /\ req'[1].status = 200
                    => \A i \in 1..Len(items) :
                        LET row == games'[Len(games) + i]
                        IN  /\ row.pgn = other.rows[i].pgn
                            /\ row.fens = other.rows[i].fens
                            /\ row.user_id = other.rows[i].user_id]_vars

\* the script has run to its end, or has failed, in dry-run mode
DryRunOver == mig.dry /\ mig.pc \in {"done", "failed"}

\* C32: after a dry run of the migration, Postgres has the tables and the rows it
\* had before the run, and no others.
C32_DryRunWritesNothing ==
    DryRunOver
    => /\ mig.tables = mig.before.tables
       /\ users = mig.before.users
       /\ games = mig.before.games
       /\ userSeq = mig.before.seq

\* what a real run of the script inserts, started on the same SQLite contents and
\* on Postgres as it was before the run
RealRunInserts ==
    LET us == UserLoop(FALSE, mig.sqliteUsers,
                       [users |-> mig.before.users, seq |-> mig.before.seq,
                        userMap |-> <<>>, inserted |-> 0])
        gs == GameLoop(FALSE, mig.sqliteGames,
                       [games |-> mig.before.games, userMap |-> us.userMap, inserted |-> 0])
    IN  [users |-> Len(us.users) - Len(mig.before.users),
         games |-> Len(gs.games) - Len(mig.before.games)]

\* C33: the counts a completed dry run reports ('would have inserted U users and
\* G games') are the numbers of users and games that a real run inserts.
C33_DryRunCountsMatchRealRun ==
    (mig.dry /\ mig.pc = "done") => mig.reported = RealRunInserts

\* a completed real run reports what it has inserted
RealRunReportsItsInserts ==
    (~mig.dry /\ mig.pc = "done")
    => /\ mig.reported = RealRunInserts
       /\ Len(users) = Len(mig.before.users) + mig.reported.users
       /\ Len(games) = Len(mig.before.games) + mig.reported.games

====
